---- MODULE Spec2Model ----
(***************************************************************************)
(* Model of the task/file processing coordinator of multimedia-review:     *)
(* the Redis lease locks of QueueService, the Celery work queue, the       *)
(* workers process_review_task / process_review_file and the Task/File     *)
(* rows they read and write.                                               *)
(*                                                                         *)
(* One ReviewTask is modelled (tasks do not share rows or lock keys); its  *)
(* files are 1..MaxFiles.  Lock keys and queue messages are numbered alike:*)
(* 0 is task_lock:<task> / process_review_task, f >= 1 is file_lock:<f> /  *)
(* process_review_file(f).                                                 *)
(***************************************************************************)
EXTENDS Integers, FiniteSets, Sequences, TLC

----------------------------------------------------------------------------
(* Bounds of the model *)

MaxFiles == 2
\* timestamps that task_lock / file_lock may read for lock values
MaxClock == 4
\* undelivered messages in the broker
MaxQueue == 2
\* ReviewResult rows of one file
MaxResults == 1
\* calls of start / cancel / recheck
MaxCalls == 2
\* worker losses and lock expiries in Spec
MaxFaults == 1
\* runs of process_review_file on the file of SpecOne
MaxRuns == 2
\* pieces of a classifier label
MaxLen == 3

(* Program constants *)

TASK_LOCK_TIMEOUT == 3600
FILE_LOCK_TIMEOUT == 1800
TASK_SOFT_TIME_LIMIT == 1800
TASK_TIME_LIMIT == 2100

\* time advances in steps of the gap between the soft and the hard limit
Step == TASK_TIME_LIMIT - TASK_SOFT_TIME_LIMIT

Workers == {"w1", "w2"}
Files == 1..MaxFiles
TaskJob == 0
Jobs == {TaskJob} \cup Files

TaskStatus == {"pending", "processing", "completed", "failed", "cancelled"}
\* "none": the row does not exist (not uploaded yet)
FileStatus == {"none", "pending", "uploading", "processing", "completed",
               "failed", "cancelled"}

VARIABLES
    task,         \* the ReviewTask row
    files,        \* the ReviewFile rows of the task (with their result rows)
    lease,        \* Redis keys task_lock:* / file_lock:*: value and remaining TTL
    task_status,  \* Redis key task_status:<task> (Status Store)
    queue,        \* Celery broker: undelivered messages, by job
    wk,           \* the worker processes and the invocation each is running
    calls,        \* calls of start / cancel / recheck made so far
    faults,       \* worker losses and lock expiries so far (Spec)
    clock,        \* next value of datetime.utcnow().timestamp() for a lock value;
                  \* every entry into a lock reads a later timestamp than the last
    finding       \* a classifier label and the verdict stored for it (SpecEnum)

vars == <<task, files, lease, task_status, queue, wk, clock, calls, faults, finding>>

----------------------------------------------------------------------------
(* _get_violation_result_enum: classifier labels are strings, modelled as  *)
(* sequences of the pieces that the function tells apart; "x" is any other *)
(* text, the upper-case pieces are what str.lower() changes.  The Chinese  *)
(* pieces are written in pinyin: bu (U+4E0D), hegui (U+5408 U+89C4),       *)
(* weigui (U+8FDD U+89C4), queding (U+786E U+5B9A).                        *)

Pieces == {"bu", "hegui", "weigui", "queding", "non", "_", "compliant", "uncertain",
           "NON", "COMPLIANT", "x"}

Labels == UNION {[1..n -> Pieces] : n \in 0..MaxLen}

NoFinding == [label |-> <<>>, verdict |-> "none"]

\* str.lower()
LowerPiece(p) ==
    CASE p = "NON" -> "non"
      [] p = "COMPLIANT" -> "compliant"
      [] OTHER -> p

lower(s) == [i \in 1..Len(s) |-> LowerPiece(s[i])]

\* pat in s
Contains(s, pat) ==
    \E i \in 1..(Len(s) - Len(pat) + 1) : SubSeq(s, i, i + Len(pat) - 1) = pat

\* the keys of result_map
ResultMapKeys ==
    {<<"bu", "hegui">>, <<"hegui">>, <<"bu", "queding">>,
     <<"non", "_", "compliant">>, <<"compliant">>, <<"uncertain">>}

result_map(k) ==
    CASE k \in {<<"bu", "hegui">>, <<"non", "_", "compliant">>} -> "non_compliant"
      [] k \in {<<"hegui">>, <<"compliant">>} -> "compliant"
      [] OTHER -> "uncertain"

get_violation_result_enum(result_str) ==
    IF result_str = <<>> THEN "uncertain"
    ELSE IF result_str \in ResultMapKeys THEN result_map(result_str)
    ELSE IF lower(result_str) \in ResultMapKeys THEN result_map(lower(result_str))
    ELSE IF \/ Contains(result_str, <<"hegui">>)
            \/ Contains(lower(result_str), <<"compliant">>)
         THEN "compliant"
    ELSE IF \/ Contains(result_str, <<"bu", "hegui">>)
            \/ Contains(result_str, <<"weigui">>)
            \/ Contains(lower(result_str), <<"non">>)
         THEN "non_compliant"
    ELSE "uncertain"

----------------------------------------------------------------------------
(* Redis lease lock: QueueService.task_lock / file_lock *)

NoLease == [token |-> 0, ttl |-> 0]

\* a lease that lasts one step of time only
TimeoutShort(job) == Step

Timeout(job) == IF job = TaskJob THEN TASK_LOCK_TIMEOUT ELSE FILE_LOCK_TIMEOUT

\* cache_redis.set(key, value, nx=True, ex=timeout): the store afterwards
SetOverwrite(store, key, value, ex) ==
    [store EXCEPT ![key] = [token |-> value, ttl |-> ex]]

SetNX(store, key, value, ex) ==
    IF store[key] = NoLease
    THEN [store EXCEPT ![key] = [token |-> value, ttl |-> ex]]
    ELSE store

\* ... and its reply: truthy iff the key was set
SetNXReply(store, key) == store[key] = NoLease

\* the Lua script of the finally block: delete the key iff it holds ARGV[1]
DeleteAlways(store, key, value) == [store EXCEPT ![key] = NoLease]

CompareAndDelete(store, key, value) ==
    IF store[key].token = value
    THEN [store EXCEPT ![key] = NoLease]
    ELSE store

\* ... and its reply: the number of keys deleted
CompareAndDeleteReply(store, key, value) ==
    IF store[key].token = value THEN 1 ELSE 0

RECURSIVE SumTo(_, _)
SumTo(q, n) == IF n < 0 THEN 0 ELSE q[n] + SumTo(q, n - 1)
QueueLen(q) == SumTo(q, MaxFiles)

is_task_processing == lease[TaskJob] # NoLease
is_file_processing(f) == lease[f] # NoLease

----------------------------------------------------------------------------
(* Workers *)

\* no invocation running: nothing of the last one is kept.  unlocked is the
\* reply of the release script (-1: not run yet)
IdleWorker ==
    [pc |-> "idle", job |-> 0, token |-> 0, elapsed |-> 0,
     completed_files |-> 0, exc |-> FALSE, ret |-> "none", unlocked |-> -1]

\* first statement inside the with-block
FirstPc(job) == IF job = TaskJob THEN "dispatch" ELSE "check"

\* positions inside the with-block of process_review_file / process_review_task
BodyPcs == {"dispatch", "check", "process", "swallowed", "complete", "vcount",
            "agg_count", "agg_write", "agg_finish"}

InBody(w) == wk[w].pc \in BodyPcs /\ ~wk[w].exc

\* A worker takes message m and enters task_lock / file_lock: it reads the
\* clock for its lock value and tries SET NX; on contention the context
\* manager raises RuntimeError before the body is entered.
StartJob(w, m) ==
    /\ wk[w].pc = "idle"
    /\ queue[m] > 0
    /\ clock < MaxClock
    /\ queue' = [queue EXCEPT ![m] = @ - 1]
    /\ clock' = clock + 1
    /\ lease' = SetNX(lease, m, clock, Timeout(m))
    /\ wk' = [wk EXCEPT ![w] =
                IF SetNXReply(lease, m)
                THEN [pc |-> FirstPc(m), job |-> m, token |-> clock,
                      elapsed |-> 0, completed_files |-> 0, exc |-> FALSE,
                      ret |-> "none", unlocked |-> -1]
                ELSE [IdleWorker EXCEPT !.pc = "lock_conflict", !.job = m,
                                        !.ret = "skipped"]]
    /\ UNCHANGED <<task, files, task_status, calls, faults, finding>>

\* except RuntimeError: the invocation returns {"status": "skipped"}
LockConflict(w) ==
    /\ wk[w].pc = "lock_conflict"
    /\ wk' = [wk EXCEPT ![w] = IdleWorker]
    /\ UNCHANGED <<task, files, lease, task_status, queue, clock, calls, faults, finding>>

\* The finally block of the context manager; afterwards the invocation
\* returns, or its except-handler runs when the body raised.
AfterRelease(w) ==
    IF wk[w].exc
    THEN IF wk[w].job = TaskJob THEN "dispatch_err" ELSE "fail_mark"
    ELSE "idle"

\* a with-block without the finally: the key is left as it is
ReleaseSkipped(w) ==
    /\ wk[w].pc = "release"
    /\ wk' = [wk EXCEPT ![w] =
                IF AfterRelease(w) = "idle"
                THEN IdleWorker
                ELSE [@ EXCEPT !.pc = AfterRelease(w), !.unlocked = 0]]
    /\ UNCHANGED <<task, files, lease, task_status, queue, clock, calls, faults, finding>>

Release(w) ==
    /\ wk[w].pc = "release"
    /\ lease' = CompareAndDelete(lease, wk[w].job, wk[w].token)
    /\ wk' = [wk EXCEPT ![w] =
                IF AfterRelease(w) = "idle"
                THEN IdleWorker
                ELSE [@ EXCEPT !.pc = AfterRelease(w),
                               !.unlocked = CompareAndDeleteReply(
                                                lease, wk[w].job, wk[w].token)]]
    /\ UNCHANGED <<task, files, task_status, queue, clock, calls, faults, finding>>

\* The worker process is lost mid-invocation: nothing is released; with
\* task_acks_late and task_reject_on_worker_lost the message is requeued.
WorkerLost(w) ==
    /\ faults < MaxFaults
    /\ faults' = faults + 1
    /\ wk[w].pc # "idle"
    /\ QueueLen(queue) < MaxQueue
    /\ queue' = [queue EXCEPT ![wk[w].job] = @ + 1]
    /\ wk' = [wk EXCEPT ![w] = IdleWorker]
    /\ UNCHANGED <<task, files, lease, task_status, clock, calls, finding>>

----------------------------------------------------------------------------
(* QueueService: submission and cancellation *)

\* add_task_to_queue: skipped while the task lock key exists
QueueAfterAddTask(q) ==
    IF is_task_processing THEN q ELSE [q EXCEPT ![TaskJob] = @ + 1]

StatusAfterAddTask(s) ==
    IF is_task_processing THEN s ELSE "submitted"

\* add_file_to_queue: skipped while the file lock key exists
QueueAfterAddFile(q, f) ==
    IF is_file_processing(f) THEN q ELSE [q EXCEPT ![f] = @ + 1]

\* QueueService.cancel_task: needs the celery_task_id of the last submission,
\* revokes it with terminate=True, deletes the task lock key unconditionally
\* and marks the status cancelled.  The revoked id is the one of the last
\* submission: the running invocation is terminated when it is that one and
\* the signal arrives (hit), and runs on when it is an earlier delivery.
\* the lock store and the status label after a call of cancel_task: without
\* a celery_task_id in the status entry the call returns False at once
LeaseAfterCancel(store, s) ==
    IF s = "submitted" THEN [store EXCEPT ![TaskJob] = NoLease] ELSE store

StatusAfterCancel(s) == IF s = "submitted" THEN "cancelled" ELSE s

QueueCancel(hit) ==
    /\ task_status = "submitted"
    /\ wk' = [w \in Workers |->
                IF hit /\ wk[w].pc # "idle" /\ wk[w].job = TaskJob
                THEN IdleWorker ELSE wk[w]]
    /\ lease' = LeaseAfterCancel(lease, task_status)
    /\ task_status' = StatusAfterCancel(task_status)
    /\ UNCHANGED <<task, files, queue, clock, calls, faults, finding>>

----------------------------------------------------------------------------
(* Task and File rows: TaskService, FileService, ReviewTask *)

ExistingStatus == FileStatus \ {"none"}

FileCount(fs, S) == Cardinality({f \in Files : fs[f].status \in S})

\* number of files of the task whose violation_count > 0
ViolatingFiles(fs) ==
    Cardinality({f \in Files : fs[f].status # "none" /\ fs[f].violation_count > 0})

\* ReviewTask.update_progress: int((processed_files / total_files) * 100).
\* For total_files < 20 the float expression equals the integer quotient.
update_progress(t) ==
    [t EXCEPT !.progress = IF t.total_files > 0
                           THEN (t.processed_files * 100) \div t.total_files
                           ELSE 0]

\* the count added to the stored processed_files instead of replacing it
update_task_progress_add(t, fs, processed_files) ==
    [update_progress([t EXCEPT !.processed_files = @ + processed_files])
        EXCEPT !.violation_count = ViolatingFiles(fs)]

\* TaskService.update_task_progress(task_id, processed_files)
update_task_progress(t, fs, processed_files) ==
    [update_progress([t EXCEPT !.processed_files = processed_files])
        EXCEPT !.violation_count = ViolatingFiles(fs)]

\* TaskService.complete_task(task_id, success, error_message)
complete_task(t, fs, success) ==
    [update_progress([t EXCEPT !.status = IF success THEN "completed" ELSE "failed"])
        EXCEPT !.violation_count = ViolatingFiles(fs)]

\* _update_task_progress, first query: files in COMPLETED or FAILED
CompletedFiles(fs) == FileCount(fs, {"completed", "failed"})

\* _update_task_progress, from the total_files query on: the task is completed
\* when the count read earlier covers all files, failed only if all failed
AggFinishTask(t, fs, completed_files) ==
    LET total_files == FileCount(fs, ExistingStatus)
        failed_files == FileCount(fs, {"failed"})
    IN  IF completed_files >= total_files
        THEN complete_task(t, fs, failed_files = 0 \/ failed_files < total_files)
        ELSE t

\* _update_task_progress run without interruption
worker_update_task_progress(t, fs) ==
    AggFinishTask(update_task_progress(t, fs, CompletedFiles(fs)), fs,
                  CompletedFiles(fs))

\* the bulk update of start_task / recheck_task on one file row
ResetFile(r) ==
    IF r.status = "none" THEN r
    ELSE [r EXCEPT !.status = "pending", !.progress = 0, !.error = FALSE]

\* neither the status nor the file count checked
StartAllowedAny(t, fs) == TRUE

\* TaskService.start_task
StartAllowed(t, fs) ==
    /\ t.status \in {"pending", "cancelled", "failed", "completed"}
    /\ FileCount(fs, ExistingStatus) > 0

\* the file rows left as they are on a restart
start_task_files_keep(t, fs) == fs

start_task_files(t, fs) ==
    IF t.status \in {"cancelled", "failed", "completed"}
    THEN [f \in Files |-> ResetFile(fs[f])]
    ELSE fs

start_task(t, fs) ==
    [t EXCEPT !.status = "processing",
              !.total_files = FileCount(fs, ExistingStatus),
              !.processed_files = 0,
              !.violation_count = 0,
              !.progress = 0]

\* TaskService.cancel_task
CancelAllowed(t) == t.status \in {"pending", "processing"}

cancel_task(t) == [t EXCEPT !.status = "cancelled"]

\* every File row of the Task cancelled, whatever its status
cancel_task_files_all(fs) ==
    [f \in Files |-> IF fs[f].status # "none"
                     THEN [fs[f] EXCEPT !.status = "cancelled"]
                     ELSE fs[f]]

cancel_task_files(fs) ==
    [f \in Files |-> IF fs[f].status \in {"pending", "processing"}
                     THEN [fs[f] EXCEPT !.status = "cancelled"]
                     ELSE fs[f]]

\* TaskService.recheck_task
RecheckAllowed(t) == t.status \in {"completed", "failed"}

recheck_task(t) ==
    [t EXCEPT !.status = "pending", !.progress = 0, !.processed_files = 0,
              !.violation_count = 0]

recheck_task_files(fs) ==
    [f \in Files |-> [ResetFile(fs[f]) EXCEPT !.results = 0]]

\* a status update that also drops the rows of a failed file
update_file_status_wipe(r, status, progress, error) ==
    [r EXCEPT !.status = status,
              !.progress = IF status = "completed" THEN 100
                           ELSE IF progress >= 0 THEN progress ELSE @,
              !.error = IF error THEN TRUE ELSE @,
              !.results = IF status = "failed" THEN 0 ELSE @]

\* FileService.update_file_status(file_id, status, progress, error_message)
update_file_status(r, status, progress, error) ==
    [r EXCEPT !.status = status,
              !.progress = IF status = "completed" THEN 100
                           ELSE IF progress >= 0 THEN progress ELSE @,
              !.error = IF error THEN TRUE ELSE @]

\* FileService.update_file_violation_count: the number of ReviewResult rows
update_file_violation_count(r) == [r EXCEPT !.violation_count = r.results]

----------------------------------------------------------------------------
(* API handlers *)

\* upload_single_file: FileService.upload_file, then add_file_to_queue
Upload(f) ==
    /\ files[f].status = "none"
    /\ \A g \in Files : g < f => files[g].status # "none"
    /\ task.status # "processing"
    /\ QueueLen(queue) < MaxQueue
    /\ files' = [files EXCEPT ![f].status = "pending"]
    /\ queue' = QueueAfterAddFile(queue, f)
    /\ UNCHANGED <<task, lease, task_status, wk, clock, calls, faults, finding>>

\* POST /{task_id}/start: start_task, then add_task_to_queue
Start ==
    /\ calls < MaxCalls
    /\ calls' = calls + 1
    /\ StartAllowed(task, files)
    /\ QueueLen(queue) < MaxQueue
    /\ task' = start_task(task, files)
    /\ files' = start_task_files(task, files)
    /\ queue' = QueueAfterAddTask(queue)
    /\ task_status' = StatusAfterAddTask(task_status)
    /\ UNCHANGED <<lease, wk, clock, faults, finding>>

\* POST /{task_id}/cancel: TaskService.cancel_task only
Cancel ==
    /\ calls < MaxCalls
    /\ calls' = calls + 1
    /\ CancelAllowed(task)
    /\ task' = cancel_task(task)
    /\ files' = cancel_task_files(files)
    /\ UNCHANGED <<lease, task_status, queue, wk, clock, faults, finding>>

\* POST /{task_id}/recheck: recheck_task, then add_task_to_queue
Recheck ==
    /\ calls < MaxCalls
    /\ calls' = calls + 1
    /\ RecheckAllowed(task)
    /\ QueueLen(queue) < MaxQueue
    /\ task' = recheck_task(task)
    /\ files' = recheck_task_files(files)
    /\ queue' = QueueAfterAddTask(queue)
    /\ task_status' = StatusAfterAddTask(task_status)
    /\ UNCHANGED <<lease, wk, clock, faults, finding>>

----------------------------------------------------------------------------
(* process_review_task, inside task_lock *)

PendingFiles(fs) == {f \in Files : fs[f].status = "pending"}

\* add_file_to_queue for every pending file
QueueAfterDispatch(q, fs) ==
    [m \in Jobs |-> IF m \in PendingFiles(fs) /\ ~is_file_processing(m)
                    THEN q[m] + 1 ELSE q[m]]

Dispatch(w) ==
    /\ wk[w].pc = "dispatch"
    /\ IF task.status \notin {"pending", "processing"}
       THEN /\ wk' = [wk EXCEPT ![w].pc = "release", ![w].ret = "skipped"]
            /\ UNCHANGED <<task, queue>>
       ELSE IF PendingFiles(files) = {}
       THEN /\ task' = complete_task(task, files, TRUE)
            /\ wk' = [wk EXCEPT ![w].pc = "release", ![w].ret = "completed"]
            /\ UNCHANGED queue
       ELSE /\ QueueLen(QueueAfterDispatch(queue, files)) <= MaxQueue
            /\ queue' = QueueAfterDispatch(queue, files)
            /\ wk' = [wk EXCEPT ![w].pc = "release", ![w].ret = "processing"]
            /\ UNCHANGED task
    /\ UNCHANGED <<files, lease, task_status, clock, calls, faults, finding>>

\* a query of the body raises: the with-block is left by an exception
DispatchRaise(w) ==
    /\ wk[w].pc = "dispatch"
    /\ wk' = [wk EXCEPT ![w].pc = "release", ![w].exc = TRUE, ![w].ret = "error"]
    /\ UNCHANGED <<task, files, lease, task_status, queue, clock, calls, faults, finding>>

\* except Exception: a processing task keeps its status, a pending one fails
DispatchHandler(w) ==
    /\ wk[w].pc = "dispatch_err"
    /\ task' = IF task.status = "pending" THEN complete_task(task, files, FALSE)
               ELSE task
    /\ wk' = [wk EXCEPT ![w] = IdleWorker]
    /\ UNCHANGED <<files, lease, task_status, queue, clock, calls, faults, finding>>

----------------------------------------------------------------------------
(* process_review_file, inside file_lock *)

\* the status check left out: update_file_status(PROCESSING) in any status
CheckAlways(w) ==
    /\ wk[w].pc = "check"
    /\ files' = [files EXCEPT ![wk[w].job] = update_file_status(@, "processing", 0, FALSE)]
    /\ wk' = [wk EXCEPT ![w].pc = "process"]
    /\ UNCHANGED <<task, lease, task_status, queue, clock, calls, faults, finding>>

\* status check, then update_file_status(PROCESSING, progress=0)
Check(w) ==
    /\ wk[w].pc = "check"
    /\ LET f == wk[w].job IN
       IF files[f].status \notin {"pending", "processing"}
       THEN /\ wk' = [wk EXCEPT ![w].pc = "release", ![w].ret = "skipped"]
            /\ UNCHANGED files
       ELSE /\ files' = [files EXCEPT ![f] = update_file_status(@, "processing", 0, FALSE)]
            /\ wk' = [wk EXCEPT ![w].pc = "process"]
    /\ UNCHANGED <<task, lease, task_status, queue, clock, calls, faults, finding>>

\* _process_*_file: the classifier returns k findings, _save_violation_result
\* commits one ReviewResult row for each
ProcessUpTo(w, k, cap) ==
    /\ wk[w].pc = "process"
    /\ files[wk[w].job].results + k <= cap
    /\ files' = [files EXCEPT ![wk[w].job].results = @ + k]
    /\ wk' = [wk EXCEPT ![w].pc = "complete"]
    /\ UNCHANGED <<task, lease, task_status, queue, clock, calls, faults, finding>>

Process(w, k) == ProcessUpTo(w, k, MaxResults)

\* an exception leaves the with-block after k rows have been committed
ProcessRaise(w, k) ==
    /\ wk[w].pc = "process"
    /\ files[wk[w].job].results + k <= MaxResults
    /\ files' = [files EXCEPT ![wk[w].job].results = @ + k]
    /\ wk' = [wk EXCEPT ![w].pc = "release", ![w].exc = TRUE, ![w].ret = "failed"]
    /\ UNCHANGED <<task, lease, task_status, queue, clock, calls, faults, finding>>

\* the classifier (or the extraction) raises inside _process_*_file after k
\* rows have been committed: the `except Exception` of _process_*_file or of
\* _review_text_content_sync / _process_image_content_sync logs it and
\* returns [], and process_review_file goes on
ProcessSwallow(w, k) ==
    /\ wk[w].pc = "process"
    /\ files[wk[w].job].results + k <= MaxResults
    /\ files' = [files EXCEPT ![wk[w].job].results = @ + k]
    /\ wk' = [wk EXCEPT ![w].pc = "swallowed"]
    /\ UNCHANGED <<task, lease, task_status, queue, clock, calls, faults, finding>>

\* update_file_status(COMPLETED, progress=100)
Complete(w) ==
    /\ wk[w].pc \in {"complete", "swallowed"}
    /\ files' = [files EXCEPT ![wk[w].job] = update_file_status(@, "completed", 100, FALSE)]
    /\ wk' = [wk EXCEPT ![w].pc = "vcount"]
    /\ UNCHANGED <<task, lease, task_status, queue, clock, calls, faults, finding>>

VCount(w) ==
    /\ wk[w].pc = "vcount"
    /\ files' = [files EXCEPT ![wk[w].job] = update_file_violation_count(@)]
    /\ wk' = [wk EXCEPT ![w].pc = "agg_count"]
    /\ UNCHANGED <<task, lease, task_status, queue, clock, calls, faults, finding>>

\* except Exception, after the lock was released:
\* update_file_status(FAILED, error_message=str(e))
FailMark(w) ==
    /\ wk[w].pc = "fail_mark"
    /\ files' = [files EXCEPT ![wk[w].job] = update_file_status(@, "failed", -1, TRUE)]
    /\ wk' = [wk EXCEPT ![w].pc = "agg_count"]
    /\ UNCHANGED <<task, lease, task_status, queue, clock, calls, faults, finding>>

\* _update_task_progress, one step per committed statement
AggCount(w) ==
    /\ wk[w].pc = "agg_count"
    /\ wk' = [wk EXCEPT ![w].pc = "agg_write",
                        ![w].completed_files = CompletedFiles(files)]
    /\ UNCHANGED <<task, files, lease, task_status, queue, clock, calls, faults, finding>>

AggWrite(w) ==
    /\ wk[w].pc = "agg_write"
    /\ task' = update_task_progress(task, files, wk[w].completed_files)
    /\ wk' = [wk EXCEPT ![w].pc = "agg_finish"]
    /\ UNCHANGED <<files, lease, task_status, queue, clock, calls, faults, finding>>

AggFinish(w) ==
    /\ wk[w].pc = "agg_finish"
    /\ task' = AggFinishTask(task, files, wk[w].completed_files)
    /\ wk' = [wk EXCEPT ![w] =
                IF wk[w].exc
                THEN IdleWorker
                ELSE [@ EXCEPT !.pc = "release", !.ret = "completed"]]
    /\ UNCHANGED <<files, lease, task_status, queue, clock, calls, faults, finding>>

\* Redis drops a lock key whose TTL ran out (time is not measured in Spec)
Expire(r) ==
    /\ faults < MaxFaults
    /\ faults' = faults + 1
    /\ lease[r] # NoLease
    /\ lease' = [lease EXCEPT ![r] = NoLease]
    /\ UNCHANGED <<task, files, task_status, queue, wk, clock, calls, finding>>

----------------------------------------------------------------------------
(* The lease protocol in real time (specification SpecLease): the bodies   *)
(* of the invocations are abstracted to their duration and their outcome.  *)

LAddTask ==
    /\ QueueLen(queue) < MaxQueue
    /\ queue' = QueueAfterAddTask(queue)
    /\ task_status' = StatusAfterAddTask(task_status)
    /\ UNCHANGED <<task, files, lease, wk, clock, calls, faults, finding>>

LAddFile(f) ==
    /\ QueueLen(queue) < MaxQueue
    /\ queue' = QueueAfterAddFile(queue, f)
    /\ UNCHANGED <<task, files, lease, task_status, wk, clock, calls, faults, finding>>

\* the with-block ends: normally, or by an exception raised in it
LBody(w) ==
    /\ wk[w].pc \in {"dispatch", "check"}
    /\ \E e \in BOOLEAN :
         wk' = [wk EXCEPT ![w].pc = "release", ![w].exc = e,
                          ![w].ret = IF e THEN "failed" ELSE "completed"]
    /\ UNCHANGED <<task, files, lease, task_status, queue, clock, calls, faults, finding>>

\* the except-handler after the with-block has been left
LHandler(w) ==
    /\ wk[w].pc \in {"dispatch_err", "fail_mark"}
    /\ wk' = [wk EXCEPT ![w] = IdleWorker]
    /\ UNCHANGED <<task, files, lease, task_status, queue, clock, calls, faults, finding>>

\* Step seconds pass.  Redis drops the keys whose TTL has run out.  An
\* invocation reaching task_soft_time_limit gets SoftTimeLimitExceeded
\* raised in its body: it leaves the with-block, unless one of the
\* `except Exception` blocks inside the body swallows it (w \in swallow).
\* An invocation reaching task_time_limit is killed: no finally block runs.
Tick(swallow) ==
    /\ \/ \E r \in Jobs : lease[r] # NoLease
       \/ \E w \in Workers : wk[w].pc # "idle"
    /\ lease' = [r \in Jobs |->
                    IF lease[r] = NoLease \/ lease[r].ttl <= Step
                    THEN NoLease
                    ELSE [lease[r] EXCEPT !.ttl = @ - Step]]
    /\ wk' = [w \in Workers |->
                IF wk[w].pc = "idle" THEN wk[w]
                ELSE IF wk[w].elapsed + Step >= TASK_TIME_LIMIT
                     THEN IdleWorker
                ELSE IF /\ wk[w].elapsed + Step = TASK_SOFT_TIME_LIMIT
                        /\ InBody(w)
                        /\ w \notin swallow
                     THEN [wk[w] EXCEPT !.elapsed = @ + Step, !.pc = "release",
                                        !.exc = TRUE, !.ret = "failed"]
                ELSE [wk[w] EXCEPT !.elapsed = @ + Step]]
    /\ UNCHANGED <<task, files, task_status, queue, clock, calls, faults, finding>>

InitTask ==
    [status |-> "pending", progress |-> 0, total_files |-> 0,
     processed_files |-> 0, violation_count |-> 0]

NoFile ==
    [status |-> "none", progress |-> 0, error |-> FALSE,
     violation_count |-> 0, results |-> 0]

Init ==
    /\ task = InitTask
    /\ files = [f \in Files |-> NoFile]
    /\ lease = [r \in Jobs |-> NoLease]
    /\ task_status = "none"
    /\ queue = [m \in Jobs |-> 0]
    /\ wk = [w \in Workers |-> IdleWorker]
    /\ clock = 1
    /\ calls = 0
    /\ faults = 0
    /\ finding = NoFinding

NextLease ==
    \/ LAddTask
    \/ \E f \in Files : LAddFile(f)
    \/ \E w \in Workers, m \in Jobs : StartJob(w, m)
    \/ \E w \in Workers : LockConflict(w)
    \/ \E w \in Workers : LBody(w)
    \/ \E w \in Workers : Release(w)
    \/ \E w \in Workers : LHandler(w)
    \/ \E hit \in BOOLEAN : QueueCancel(hit)
    \/ \E s \in SUBSET Workers : Tick(s)

SpecLease == Init /\ [][NextLease]_vars

Next ==
    \/ \E f \in Files : Upload(f)
    \/ Start
    \/ Cancel
    \/ Recheck
    \/ \E w \in Workers, m \in Jobs : StartJob(w, m)
    \/ \E w \in Workers : LockConflict(w)
    \/ \E w \in Workers : Dispatch(w)
    \/ \E w \in Workers : DispatchRaise(w)
    \/ \E w \in Workers : DispatchHandler(w)
    \/ \E w \in Workers : Check(w)
    \/ \E w \in Workers, k \in 0..MaxResults : Process(w, k)
    \/ \E w \in Workers, k \in 0..MaxResults : ProcessRaise(w, k)
    \/ \E w \in Workers, k \in 0..MaxResults : ProcessSwallow(w, k)
    \/ \E w \in Workers : Complete(w)
    \/ \E w \in Workers : VCount(w)
    \/ \E w \in Workers : FailMark(w)
    \/ \E w \in Workers : AggCount(w)
    \/ \E w \in Workers : AggWrite(w)
    \/ \E w \in Workers : AggFinish(w)
    \/ \E w \in Workers : Release(w)
    \/ \E w \in Workers : WorkerLost(w)
    \/ \E r \in Jobs : Expire(r)

Spec == Init /\ [][Next]_vars

----------------------------------------------------------------------------
(* Concurrent file processing of a started task (specification SpecAgg):   *)
(* all files uploaded, the task started and dispatched, one               *)
(* process_review_file message per file undelivered, no further API call.  *)

InitAgg ==
    /\ task = [InitTask EXCEPT !.status = "processing", !.total_files = MaxFiles]
    /\ files = [f \in Files |-> [NoFile EXCEPT !.status = "pending"]]
    /\ lease = [r \in Jobs |-> NoLease]
    /\ task_status = "submitted"
    /\ queue = [m \in Jobs |-> IF m \in Files THEN 1 ELSE 0]
    /\ wk = [w \in Workers |-> IdleWorker]
    /\ clock = 1
    /\ calls = 0
    /\ faults = 0
    /\ finding = NoFinding

NextAgg ==
    \/ \E w \in Workers, m \in Jobs : StartJob(w, m)
    \/ \E w \in Workers : Check(w)
    \/ \E w \in Workers, k \in 0..MaxResults : Process(w, k)
    \/ \E w \in Workers, k \in 0..MaxResults : ProcessRaise(w, k)
    \/ \E w \in Workers, k \in 0..MaxResults : ProcessSwallow(w, k)
    \/ \E w \in Workers : Complete(w)
    \/ \E w \in Workers : VCount(w)
    \/ \E w \in Workers : FailMark(w)
    \/ \E w \in Workers : AggCount(w)
    \/ \E w \in Workers : AggWrite(w)
    \/ \E w \in Workers : AggFinish(w)
    \/ \E w \in Workers : Release(w)

SpecAgg == InitAgg /\ [][NextAgg]_vars

----------------------------------------------------------------------------
(* One file from upload to quiescence (specification SpecOne): file 1 is   *)
(* uploaded, the task is started once, no other API call, no worker loss,  *)
(* no lock expiry, and the classifier returns Findings findings each time  *)
(* it is called.                                                           *)

Findings == MaxResults

InitOne ==
    /\ task = InitTask
    /\ files = [f \in Files |-> NoFile]
    /\ lease = [r \in Jobs |-> NoLease]
    /\ task_status = "none"
    /\ queue = [m \in Jobs |-> 0]
    /\ wk = [w \in Workers |-> IdleWorker]
    /\ clock = 1
    /\ calls = MaxCalls - 1
    /\ faults = MaxFaults
    /\ finding = NoFinding

\* the next step of worker w
RunOne(w) ==
    \/ \E m \in Jobs : StartJob(w, m)
    \/ LockConflict(w)
    \/ Dispatch(w)
    \/ Check(w)
    \/ ProcessUpTo(w, Findings, MaxRuns * Findings)
    \/ Complete(w)
    \/ VCount(w)
    \/ AggCount(w)
    \/ AggWrite(w)
    \/ AggFinish(w)
    \/ Release(w)

NextOne ==
    \/ Upload(1)
    \/ Start
    \/ \E w \in Workers : RunOne(w)

SpecOne == InitOne /\ [][NextOne]_vars

\* a worker that can take a message or continue its invocation does so
SpecOneFair == SpecOne /\ \A w \in Workers : WF_vars(RunOne(w))

\* no message undelivered and no invocation running
Quiescent ==
    /\ \A m \in Jobs : queue[m] = 0
    /\ \A w \in Workers : wk[w].pc = "idle"

----------------------------------------------------------------------------
(* Recovery after a lost worker (specification SpecRecover): the task has  *)
(* one file and is processing; the worker that ran process_review_file was *)
(* lost after update_file_status(PROCESSING), its lease is still stored    *)
(* and the message was requeued.  The lease may expire once; after that    *)
(* the task is resubmitted once with add_task_to_queue.                    *)

InitRecover ==
    /\ task = [InitTask EXCEPT !.status = "processing", !.total_files = 1]
    /\ files = [f \in Files |-> IF f = 1 THEN [NoFile EXCEPT !.status = "processing"]
                                ELSE NoFile]
    /\ lease = [r \in Jobs |-> IF r = 1
                               THEN [token |-> 1, ttl |-> FILE_LOCK_TIMEOUT]
                               ELSE NoLease]
    /\ task_status = "submitted"
    /\ queue = [m \in Jobs |-> IF m = 1 THEN 1 ELSE 0]
    /\ wk = [w \in Workers |-> IdleWorker]
    /\ clock = 2
    /\ calls = MaxCalls - 1
    /\ faults = MaxFaults - 1
    /\ finding = NoFinding

\* add_task_to_queue for the task, once the stale file lease is gone
Resubmit ==
    /\ calls < MaxCalls
    /\ calls' = calls + 1
    /\ \A f \in Files : lease[f] = NoLease
    /\ QueueLen(queue) < MaxQueue
    /\ queue' = QueueAfterAddTask(queue)
    /\ task_status' = StatusAfterAddTask(task_status)
    /\ UNCHANGED <<task, files, lease, wk, clock, faults, finding>>

NextRecover ==
    \/ \E r \in Jobs : Expire(r)
    \/ Resubmit
    \/ \E w \in Workers, m \in Jobs : StartJob(w, m)
    \/ \E w \in Workers : LockConflict(w)
    \/ \E w \in Workers : Dispatch(w)
    \/ \E w \in Workers : Check(w)
    \/ \E w \in Workers, k \in 0..MaxResults : Process(w, k)
    \/ \E w \in Workers, k \in 0..MaxResults : ProcessRaise(w, k)
    \/ \E w \in Workers : Complete(w)
    \/ \E w \in Workers : VCount(w)
    \/ \E w \in Workers : FailMark(w)
    \/ \E w \in Workers : AggCount(w)
    \/ \E w \in Workers : AggWrite(w)
    \/ \E w \in Workers : AggFinish(w)
    \/ \E w \in Workers : Release(w)

SpecRecover == InitRecover /\ [][NextRecover]_vars

----------------------------------------------------------------------------
(* process_review_file in real time (specification SpecTimed): a started   *)
(* task with one pending file whose message was delivered MaxQueue times.  *)
(* Time passes with Tick; SoftTimeLimitExceeded can be swallowed only      *)
(* where the body has an `except Exception` block around it, which is      *)
(* after update_file_status(PROCESSING).                                   *)

InitTimed ==
    /\ task = [InitTask EXCEPT !.status = "processing", !.total_files = 1]
    /\ files = [f \in Files |-> IF f = 1 THEN [NoFile EXCEPT !.status = "pending"]
                                ELSE NoFile]
    /\ lease = [r \in Jobs |-> NoLease]
    /\ task_status = "submitted"
    /\ queue = [m \in Jobs |-> IF m = 1 THEN MaxQueue ELSE 0]
    /\ wk = [w \in Workers |-> IdleWorker]
    /\ clock = 1
    /\ calls = MaxCalls
    /\ faults = MaxFaults
    /\ finding = NoFinding

\* no `except Exception` block lies between the acquisition of file_lock and
\* update_file_status(PROCESSING): the soft limit is not swallowed there
TickTimed(swallow) ==
    /\ \A w \in swallow : wk[w].pc # "check"
    /\ Tick(swallow)

NextTimed ==
    \/ \E w \in Workers, m \in Jobs : StartJob(w, m)
    \/ \E w \in Workers : LockConflict(w)
    \/ \E w \in Workers : Check(w)
    \/ \E w \in Workers, k \in 0..MaxResults : Process(w, k)
    \/ \E w \in Workers, k \in 0..MaxResults : ProcessRaise(w, k)
    \/ \E w \in Workers : Complete(w)
    \/ \E w \in Workers : VCount(w)
    \/ \E w \in Workers : FailMark(w)
    \/ \E w \in Workers : AggCount(w)
    \/ \E w \in Workers : AggWrite(w)
    \/ \E w \in Workers : AggFinish(w)
    \/ \E w \in Workers : Release(w)
    \/ \E s \in SUBSET Workers : TickTimed(s)

SpecTimed == InitTimed /\ [][NextTimed]_vars

----------------------------------------------------------------------------
(* Duplicate delivery (specification SpecDup): the started task of         *)
(* SpecTimed, its pending file submitted MaxQueue times, no API call, no   *)
(* worker loss and no lease expiry.                                        *)

NextDup ==
    \/ NextAgg
    \/ \E w \in Workers : LockConflict(w)

SpecDup == InitTimed /\ [][NextDup]_vars

\* invocation w has passed the status check of process_review_file and has
\* not returned yet
PastCheck(w) ==
    \/ wk[w].pc \in (BodyPcs \ {"dispatch", "check"}) \cup {"fail_mark"}
    \/ wk[w].pc = "release" /\ wk[w].ret \in {"completed", "failed"}

----------------------------------------------------------------------------
(* Conversion of classifier labels (specification SpecEnum): any label of  *)
(* at most MaxLen pieces is converted once.                                *)

InitEnum ==
    /\ task = InitTask
    /\ files = [f \in Files |-> NoFile]
    /\ lease = [r \in Jobs |-> NoLease]
    /\ task_status = "none"
    /\ queue = [m \in Jobs |-> 0]
    /\ wk = [w \in Workers |-> IdleWorker]
    /\ clock = 1
    /\ calls = 0
    /\ faults = 0
    /\ finding \in {[label |-> s, verdict |-> "none"] : s \in Labels}

\* _save_violation_result, its first two statements
Convert ==
    /\ finding.verdict = "none"
    /\ finding' = [finding EXCEPT !.verdict = get_violation_result_enum(finding.label)]
    /\ UNCHANGED <<task, files, lease, task_status, queue, wk, clock, calls, faults>>

NextEnum == Convert

SpecEnum == InitEnum /\ [][NextEnum]_vars

----------------------------------------------------------------------------
(* Verdicts of the Results (specification SpecVerdict): a started task     *)
(* with one pending file, submitted once; every finding of the classifier  *)
(* carries the same recognised label, and finding records the verdict      *)
(* stored in the ReviewResult rows of the file.                            *)

InitVerdict ==
    /\ task = [InitTask EXCEPT !.status = "processing", !.total_files = 1]
    /\ files = [f \in Files |-> IF f = 1 THEN [NoFile EXCEPT !.status = "pending"]
                                ELSE NoFile]
    /\ lease = [r \in Jobs |-> NoLease]
    /\ task_status = "submitted"
    /\ queue = [m \in Jobs |-> IF m = 1 THEN 1 ELSE 0]
    /\ wk = [w \in Workers |-> IdleWorker]
    /\ clock = 1
    /\ calls = MaxCalls
    /\ faults = MaxFaults
    /\ finding \in {[label |-> s, verdict |-> "none"] : s \in ResultMapKeys}

\* _process_*_file: _save_violation_result converts the label of each of the
\* k findings and commits one ReviewResult row with that verdict
SaveFindings(w, k) ==
    /\ wk[w].pc = "process"
    /\ files[wk[w].job].results + k <= MaxResults
    /\ files' = [files EXCEPT ![wk[w].job].results = @ + k]
    /\ finding' = [finding EXCEPT !.verdict = get_violation_result_enum(finding.label)]
    /\ wk' = [wk EXCEPT ![w].pc = "complete"]
    /\ UNCHANGED <<task, lease, task_status, queue, clock, calls, faults>>

NextVerdict ==
    \/ \E w \in Workers, m \in Jobs : StartJob(w, m)
    \/ \E w \in Workers : Check(w)
    \/ \E w \in Workers, k \in 0..MaxResults : SaveFindings(w, k)
    \/ \E w \in Workers : Complete(w)
    \/ \E w \in Workers : VCount(w)
    \/ \E w \in Workers : AggCount(w)
    \/ \E w \in Workers : AggWrite(w)
    \/ \E w \in Workers : AggFinish(w)
    \/ \E w \in Workers : Release(w)

SpecVerdict == InitVerdict /\ [][NextVerdict]_vars

----------------------------------------------------------------------------
(* Properties of the lease lock (SpecLease) *)

\* C1: per lock key at most one running invocation owns the stored lease, and
\* an entry into task_lock / file_lock made while the key exists fails at once
\* (lock_conflict) and leaves the stored value and TTL as they were; an entry
\* succeeds only on an absent key, which then holds the new token and TTL.
C1_AcquireExclusive ==
    /\ [](\A r \in Jobs :
            Cardinality({w \in Workers : /\ wk[w].pc \notin {"idle", "lock_conflict"}
                                         /\ wk[w].job = r
                                         /\ wk[w].token = lease[r].token}) <= 1)
    /\ [][\A w \in Workers, m \in Jobs :
            (wk[w].pc = "idle" /\ wk'[w].pc # "idle" /\ wk'[w].job = m)
            => IF lease[m] # NoLease
               THEN lease' = lease /\ wk'[w].pc = "lock_conflict"
               ELSE /\ wk'[w].pc = FirstPc(m)
                    /\ lease' = [lease EXCEPT ![m] =
                                  [token |-> wk'[w].token, ttl |-> Timeout(m)]]]_vars

\* an entry has just failed on a key whose lease another invocation owns
C1_Witness ==
    \E w, v \in Workers :
        /\ wk[w].pc = "lock_conflict"
        /\ wk[v].pc \in BodyPcs
        /\ wk[v].job = wk[w].job
        /\ lease[wk[w].job] = [token |-> wk[v].token, ttl |-> Timeout(wk[v].job)]

\* C2: never two invocations inside the with-block of file_lock for one file.
C2_OneInBody ==
    \A f \in Files :
        Cardinality({w \in Workers : InBody(w) /\ wk[w].job = f}) <= 1

\* C3: when invocation b owns the stored lease of a key, the release script of
\* another invocation a of the same key leaves the key as it is.
C3_StaleReleaseNoOp ==
    [][\A a, b \in Workers :
        ( /\ a # b
          /\ wk[a].pc = "release"
          /\ wk'[a] # wk[a]
          /\ wk'[b] = wk[b]
          /\ wk[b].pc \in BodyPcs
          /\ wk[b].job = wk[a].job
          /\ lease[wk[b].job].token = wk[b].token )
        => lease'[wk[a].job] = lease[wk[a].job]]_vars

\* a's release script has replied 0 on a file key whose lease b owns: a's own
\* lease had expired and b acquired the key before a left its with-block
C3_Witness ==
    \E a, b \in Workers :
        /\ wk[a].pc = "fail_mark"
        /\ wk[a].unlocked = 0
        /\ wk[b].pc \in BodyPcs
        /\ wk[b].job = wk[a].job
        /\ lease[wk[b].job].token = wk[b].token
        /\ wk[a].token < wk[b].token

\* C4: a lock key that exists stops existing only by the release script of
\* the invocation whose token it holds, or by its TTL running out.
C4_OnlyOwnerOrExpiry ==
    [][\A r \in Jobs :
        (lease[r] # NoLease /\ lease'[r] = NoLease)
        => \/ \E w \in Workers : /\ wk[w].pc = "release"
                                  /\ wk[w].job = r
                                  /\ wk[w].token = lease[r].token
                                  /\ wk'[w].pc = AfterRelease(w)
           \/ /\ lease[r].ttl <= Step
              /\ \A q \in Jobs : lease'[q] # NoLease => lease'[q].ttl = lease[q].ttl - Step]_vars

----------------------------------------------------------------------------
(* Properties of the Task and File rows (Spec) *)

\* C5: a step that sets the Task to completed or failed leaves no File of it
\* pending or processing.
C5_TerminalTaskTerminalFiles ==
    [][(task'.status \in {"completed", "failed"} /\ task'.status # task.status)
       => \A f \in Files :
            files'[f].status \in {"none", "completed", "failed", "cancelled"}]_vars

\* C6: a step of a worker that sets the Task to completed or failed sets it to
\* failed exactly when every File of the Task is failed.
C6_FailedIffAllFailed ==
    [][(task'.status \in {"completed", "failed"} /\ task'.status # task.status)
       => (task'.status = "failed"
           <=> \A f \in Files : files'[f].status \in {"none", "failed"})]_vars

\* C7: in every reachable state of the rows, _update_task_progress run a
\* second time changes nothing the first run has written.
C7_AggregationIdempotent ==
    worker_update_task_progress(worker_update_task_progress(task, files), files)
        = worker_update_task_progress(task, files)

\* an invocation has finished its file and has just run the aggregation,
\* which found the Task with all files processed and completed it
C7_Witness ==
    \E w \in Workers :
        /\ wk[w].pc = "release"
        /\ wk[w].job \in Files
        /\ wk[w].ret = "completed"
        /\ task.processed_files = MaxFiles
        /\ task.status = "completed"
        /\ task = worker_update_task_progress(task, files)

\* C8: once the Task has been started, no step other than a start or a
\* recheck lowers the stored processed_files.
C8_ProcessedMonotone ==
    [][(task.total_files > 0 /\ calls' = calls)
       => task'.processed_files >= task.processed_files]_vars

\* C9: processed_files <= total_files, 0 <= progress <= 100 and progress is the
\* integer percentage of processed_files in total_files (0 when there is none).
C9_ProgressInvariant ==
    /\ task.processed_files <= task.total_files
    /\ task.progress >= 0
    /\ task.progress <= 100
    /\ task.progress = IF task.total_files > 0
                       THEN (task.processed_files * 100) \div task.total_files
                       ELSE 0

\* C10 (SpecAgg): once every invocation has returned and no message is left,
\* processed_files is the number of files completed or failed, and when
\* that is every file the Task is completed or failed with progress 100.
C10_NoLostUpdate ==
    ((\A w \in Workers : wk[w].pc = "idle") /\ QueueLen(queue) = 0)
    => /\ task.processed_files = CompletedFiles(files)
       /\ CompletedFiles(files) = FileCount(files, ExistingStatus)
          => task.status \in {"completed", "failed"} /\ task.progress = 100

\* C11: a start of a Task that is failed, cancelled or completed leaves every
\* File pending with progress 0 and no error message, and the Task processing
\* with processed_files, progress and violation_count 0 and total_files the
\* number of its Files.
C11_RestartResets ==
    [][(task.status \in {"failed", "cancelled", "completed"}
        /\ task'.status = "processing")
       => /\ \A f \in Files :
               files[f].status # "none"
               => /\ files'[f].status = "pending"
                  /\ files'[f].progress = 0
                  /\ files'[f].error = FALSE
          /\ task'.processed_files = 0
          /\ task'.progress = 0
          /\ task'.violation_count = 0
          /\ task'.total_files = FileCount(files', ExistingStatus)
          /\ task'.total_files > 0]_vars

\* a restarted Task before any worker has run: a File that was processed
\* before (its Result rows are kept) is pending again
C11_Witness ==
    /\ task.status = "processing"
    /\ task.processed_files = 0
    /\ \A w \in Workers : wk[w].pc = "idle"
    /\ \E f \in Files : /\ files[f].status = "pending"
                         /\ files[f].results > 0
                         /\ files[f].progress = 0
                         /\ files[f].error = FALSE

\* C12: a process_review_file invocation that finds the file lock held, or
\* finds the File completed, failed or cancelled, returns "skipped" without
\* running the handler or the aggregation, and none of its steps changes a
\* File row, a Result row or the Task row.
C12_AbandonedRunNoEffect ==
    [][\A w \in Workers :
        faults' = faults =>
        /\ (wk[w].pc = "idle" /\ wk'[w].pc = "lock_conflict" /\ wk'[w].job \in Files)
           => wk'[w].ret = "skipped" /\ files' = files /\ task' = task
        /\ (wk[w].pc = "lock_conflict" /\ wk[w].job \in Files /\ wk'[w] # wk[w])
           => wk'[w].pc = "idle" /\ files' = files /\ task' = task
        /\ ( /\ wk[w].pc = "check"
             /\ files[wk[w].job].status \in {"completed", "failed", "cancelled"}
             /\ wk'[w] # wk[w] )
           => /\ wk'[w].pc = "release"
              /\ wk'[w].ret = "skipped"
              /\ ~wk'[w].exc
              /\ files' = files /\ task' = task
        /\ ( /\ wk[w].pc = "release" /\ wk[w].job \in Files
             /\ wk[w].ret = "skipped" /\ wk'[w] # wk[w] )
           => wk'[w].pc = "idle" /\ files' = files /\ task' = task]_vars

\* an invocation has found its File completed and is returning "skipped"
C12_Witness ==
    \E w \in Workers :
        /\ wk[w].pc = "release"
        /\ wk[w].job \in Files
        /\ wk[w].ret = "skipped"
        /\ files[wk[w].job].status = "completed"
        /\ files[wk[w].job].progress = 100

\* C13: when the classifier has raised while an invocation processed a
\* File, the invocation's next write marks the File failed with an error
\* message.
C13_ClassifierFailureFailsFile ==
    [][\A w \in Workers :
        (wk[w].pc = "swallowed" /\ wk'[w].pc # "swallowed" /\ faults' = faults)
        => /\ files'[wk[w].job].status = "failed"
           /\ files'[wk[w].job].error]_vars

\* C14: a start takes effect only on a Task that is pending, cancelled, failed
\* or completed and has at least one File, and on such a Task it does; on a
\* processing Task or a Task without Files the call raises before it writes,
\* so no step of it exists.
C14_StartPrecondition ==
    /\ []((/\ task.status \in {"pending", "cancelled", "failed", "completed"}
           /\ \E f \in Files : files[f].status # "none"
           /\ calls < MaxCalls
           /\ QueueLen(queue) < MaxQueue) => ENABLED Start)
    /\ []((task.status = "processing" \/ \A f \in Files : files[f].status = "none")
          => ~ENABLED Start)
    /\ [][(calls' # calls /\ task'.status = "processing")
          => /\ task.status \in {"pending", "cancelled", "failed", "completed"}
             /\ \E f \in Files : files[f].status # "none"]_vars

\* a processing Task with Files, within the bounds of the model: start is refused
C14_Witness ==
    /\ task.status = "processing"
    /\ \E f \in Files : files[f].status # "none"
    /\ calls < MaxCalls
    /\ QueueLen(queue) < MaxQueue
    /\ ~ENABLED Start

\* C15: a cancel takes effect exactly on a pending or processing Task; it sets
\* the Task to cancelled and every File that is not completed, failed or
\* cancelled to cancelled, and leaves the other Files as they were; on a
\* completed, failed or cancelled Task the call raises before it writes.
C15_CancelEffect ==
    /\ []((task.status \in {"pending", "processing"} /\ calls < MaxCalls)
          => ENABLED Cancel)
    /\ [](task.status \in {"completed", "failed", "cancelled"} => ~ENABLED Cancel)
    /\ [][(calls' # calls /\ task'.status = "cancelled")
          => /\ task.status \in {"pending", "processing"}
             /\ \A f \in Files :
                   files'[f] = IF files[f].status \in
                                   {"none", "completed", "failed", "cancelled"}
                               THEN files[f]
                               ELSE [files[f] EXCEPT !.status = "cancelled"]]_vars

\* after a cancel: a cancelled File next to one that had completed or failed
C15_Witness ==
    /\ task.status = "cancelled"
    /\ calls > 0
    /\ \E f \in Files : files[f].status = "cancelled"
    /\ \E f \in Files : files[f].status \in {"completed", "failed"}

\* C16: with one File whose classifier returns Findings findings, after the
\* upload and the start, once no message is undelivered and no invocation
\* runs, the File is completed at progress 100 with exactly Findings Results
\* and violation_count Findings, and the Task is completed with
\* violation_count 1.
C16_OneFileEndToEnd ==
    (Quiescent /\ files[1].status # "none" /\ calls = MaxCalls)
    => /\ files[1].status = "completed"
       /\ files[1].progress = 100
       /\ files[1].results = Findings
       /\ files[1].violation_count = Findings
       /\ task.status = "completed"
       /\ task.violation_count = 1

\* C17: when an invocation that acquired a lease returns (completed, skipped
\* on status, or failed after an exception in the body), the key of its job
\* does not hold its token any more.  A lost worker does not return.
C17_ReleasedOnReturn ==
    [][\A w \in Workers :
        (/\ wk[w].pc \notin {"idle", "lock_conflict"}
         /\ wk'[w].pc = "idle"
         /\ faults' = faults)
        => lease'[wk[w].job].token # wk[w].token]_vars

\* the body raised, the finally block deleted the key, the handler is running
C17_Witness ==
    \E w \in Workers :
        /\ wk[w].pc \in {"fail_mark", "dispatch_err"}
        /\ wk[w].unlocked = 1
        /\ lease[wk[w].job].token # wk[w].token

\* C18: after the loss of the worker, the expiry of the file lease and the
\* resubmission of the task, the File has been processed again: once no
\* message is undelivered and no invocation runs, it is completed or failed.
C18_RecoveredAfterResubmit ==
    (Quiescent /\ calls = MaxCalls /\ lease[1] = NoLease)
    => files[1].status \in {"completed", "failed"}

\* C19: a started Task does not stay processing for ever: with workers that
\* keep running, no worker loss and a classifier that returns, it reaches
\* completed, failed or cancelled.
C19_StartedTaskFinishes ==
    (task.status = "processing") ~> (task.status \in {"completed", "failed", "cancelled"})

C21_PartialResultsKept ==
    [][/\ calls' = calls => \A f \in Files : files'[f].results >= files[f].results
       /\ \A f \in Files :
            (files[f].status # "failed" /\ files'[f].status = "failed")
            => files'[f].results = files[f].results]_vars

\* a File marked failed by the handler after rows of the same run were committed
C21_Witness ==
    \E w \in Workers :
        /\ wk[w].exc
        /\ wk[w].pc = "agg_count"
        /\ files[wk[w].job].status = "failed"
        /\ files[wk[w].job].error
        /\ files[wk[w].job].results > 0

\* C22: in every state of a task that was submitted, a call of
\* QueueService.cancel_task leaves the task lock key absent and the status
\* label cancelled.
C22_CancelFreesLease ==
    task_status # "none"
    => /\ LeaseAfterCancel(lease, task_status)[TaskJob] = NoLease
       /\ StatusAfterCancel(task_status) = "cancelled"

\* C23: Results of an earlier run do not accumulate: however often the Task is
\* run again, a File never has more Results, and never a larger
\* violation_count, than one run of its classifier yields.
C23_RerunKeepsResultCount ==
    \A f \in Files : /\ files[f].results <= Findings
                     /\ files[f].violation_count <= Findings

\* C24: whenever the Task is completed or failed, Task.violation_count is the
\* number of its Files whose violation_count > 0.
C24_TaskViolationCount ==
    task.status \in {"completed", "failed"}
    => task.violation_count = ViolatingFiles(files)

\* C25: of the runs of one File that was submitted more than once, at most one
\* gets past the status check (persists Results, sets the File completed or
\* failed); the others return skipped.  A File that a finished run left
\* completed or failed is skipped by the status check, so two such runs can
\* only exist side by side.
C25_OneRunPerFile ==
    \A f \in Files :
        Cardinality({w \in Workers : wk[w].job = f /\ PastCheck(w)}) <= 1

\* C26: the six recognised labels, in any case, are converted to their
\* verdicts and every other label, the empty one included, to uncertain; only
\* a label that is exactly a compliant label is stored as compliant.
C26_LabelToVerdict ==
    finding.verdict # "none"
    => /\ finding.verdict =
            IF lower(finding.label) \in ResultMapKeys
            THEN result_map(lower(finding.label))
            ELSE "uncertain"
       /\ finding.verdict = "compliant"
            => lower(finding.label) \in {<<"hegui">>, <<"compliant">>}

\* C27: a cancelled Task stays cancelled as long as no API call is made: no
\* step of a worker changes its status.
C27_CancelledStays ==
    [][(task.status = "cancelled" /\ calls' = calls)
       => task'.status = "cancelled"]_vars

\* C28: the Task becomes completed or failed only from processing, never
\* directly from pending (or from cancelled).
C28_FinishOnlyFromProcessing ==
    [][(task'.status \in {"completed", "failed"} /\ task'.status # task.status)
       => task.status = "processing"]_vars

\* C29: a File that is completed or failed has the violation_count that
\* update_file_violation_count computes from its Results.
C29_TerminalFileCountFresh ==
    \A f \in Files :
        files[f].status \in {"completed", "failed"}
        => files[f] = update_file_violation_count(files[f])

\* C30: a File all of whose Results are compliant has violation_count 0 once
\* it has been processed, and its Task counts no violating File.
C30_CompliantNotCounted ==
    (Quiescent /\ files[1].status = "completed" /\ finding.verdict = "compliant")
    => /\ files[1].violation_count = 0
       /\ task.violation_count = 0

====
